---------------------------- MODULE Spec2Model ----------------------------
(***************************************************************************)
(* AEBridge: reconciliation of an After Effects project against a JSON     *)
(* config (AEBridge_Startup.jsx) and the render-only script                *)
(* (AEBridge_Render.jsx).                                                  *)
(*                                                                         *)
(* The project graph is the state: compositions with their layers, media   *)
(* (footage) items, the render queue's output module.  One action is one   *)
(* step of a script: the part of Startup before the item loop, one         *)
(* iteration of the item loop, the part after the loop; for the render     *)
(* script its preparation, configureOutputModule, and the final part.      *)
(* Between invocations the user may edit the project.                      *)
(*                                                                         *)
(* Time is counted in ticks of 1/600 s: a frame at 24 fps is 25 ticks, a   *)
(* frame at 25 fps is 24 ticks and the scripts' tolerance 0.01 s is 6      *)
(* ticks, so every time the scripts compute is an integer.                 *)
(***************************************************************************)
EXTENDS Integers, Sequences, FiniteSets, TLC

(***************************************************************************)
(* Bounds of the model.                                                    *)
(***************************************************************************)
MaxRuns == 2
MaxEdits == 1

(***************************************************************************)
(* Arithmetic.                                                             *)
(***************************************************************************)
TPS == 24 * 25
Tol == TPS \div 100
Abs(x) == IF x < 0 THEN -x ELSE x
\* n frames at fr frames per second, in ticks (n / fr seconds)
Secs(n, fr) == (n * TPS) \div fr
\* An optional number of the JSON config: <<>> when the field is absent, <<v>> when given
Absent == <<>>
Given(v) == <<v>>
\* JavaScript's  v || d : an absent field (undefined) and 0 are both falsy
OrDefault(v, d) == IF v = Absent THEN d ELSE IF v[1] = 0 THEN d ELSE v[1]

(***************************************************************************)
(* Sequences.                                                              *)
(***************************************************************************)
Range(s) == {s[i] : i \in DOMAIN s}
\* the first of the indices in S, 0 if S is empty (a for loop that returns on
\* the first match)
First(S) == IF S = {} THEN 0 ELSE CHOOSE i \in S : \A j \in S : i <= j
Drop(s, n) == SubSeq(s, n + 1, Len(s))

(***************************************************************************)
(* Names.  An item name and a media item's name are strings, modelled as   *)
(* sequences of tokens so that findFootageByName's prefix test and suffix  *)
(* pattern are computed.  The reserved names built from an item name are   *)
(* tagged: "[AEBridge]_" + n, "[AEBridge]_Source_" + n, n + " (Missing)".  *)
(***************************************************************************)
Plain(n) == [tag |-> "plain", n |-> n]
PreName(n) == [tag |-> "pre", n |-> n]
SourceName(n) == [tag |-> "src", n |-> n]
MissingName(n) == [tag |-> "missing", n |-> n]

\* characters of the class [_\.\[\]0-9\-] (a token is a run of them)
SuffixClass == {"_", ".", "[1-10]", "-"}
\* (exr|dpx|tif|tiff|jpg|jpeg|png), case-insensitive
SuffixExt == {"exr", "dpx", "tif", "tiff", "jpg", "jpeg", "png"}
\* suffix.match(/^[_\.\[\]0-9\-]+\.(exr|dpx|tif|tiff|jpg|jpeg|png)$/i)
SuffixMatches(s) ==
    /\ Len(s) >= 3
    /\ s[Len(s)] \in SuffixExt
    /\ s[Len(s) - 1] = "."
    /\ \A i \in 1..(Len(s) - 2) : s[i] \in SuffixClass
\* it.name.indexOf(name) === 0
IsPrefix(p, s) == Len(p) <= Len(s) /\ SubSeq(s, 1, Len(p)) = p

(***************************************************************************)
(* The file system and the host's naming of an imported sequence.          *)
(***************************************************************************)
NoPath == "none"
PathXA == "/x/a.0001.exr"
PathYA == "/y/a.0001.exr"
PathGone == "/z/gone.0001.exr"
Paths == {PathXA, PathYA, PathGone, NoPath}
\* new File(p).exists
FileExists(p) == p \in {PathXA, PathYA}
\* the name the host gives the media item of a sequence imported from p
FileName(p) == <<"a", ".", "[1-10]", ".", "exr">>
\* the number of frames of the sequence on disk
FileFrames(p) == IF p = PathXA THEN 10 ELSE 5

NameA == <<"a">>
NameB == <<"b">>

(***************************************************************************)
(* Config: the parsed JSON.  An absent path is NoPath, an absent name the  *)
(* empty string.                                                           *)
(***************************************************************************)
FRAME_RATE(c) == OrDefault(c.frame_rate, 24)
GLOBAL_FIRST(c) == OrDefault(c.global_first, 1)
GLOBAL_LAST(c) == OrDefault(c.global_last, 100)
COMP_WIDTH(c) == OrDefault(c.width, 1920)
COMP_HEIGHT(c) == OrDefault(c.height, 1080)
DURATION(c) == Secs(GLOBAL_LAST(c) - GLOBAL_FIRST(c) + 1, FRAME_RATE(c))
\* config.comp_name || "AEBridge": an absent name is the empty string
COMP_NAME(c) == IF c.comp_name = <<>> THEN <<"AEBridge">> ELSE c.comp_name
MainName(c) == Plain(COMP_NAME(c))

(***************************************************************************)
(* Compositions.  The host h of an invocation names the property writes    *)
(* it rejects (they throw) in h.rejects.                                   *)
(***************************************************************************)
\* try { if (Math.abs(comp.frameRate - FRAME_RATE) > 0.01) comp.frameRate = FRAME_RATE; } catch (e) {}
SyncFrameRate(comp, c, h) ==
    IF Abs(comp.frameRate - FRAME_RATE(c)) * 100 > 1 /\ "frameRate" \notin h.rejects
    THEN [comp EXCEPT !.frameRate = FRAME_RATE(c)]
    ELSE comp
\* try { if (Math.abs(comp.duration - DURATION) > 0.01) comp.duration = DURATION; } catch (e) {}
SyncDuration(comp, c, h) ==
    IF Abs(comp.duration - DURATION(c)) > Tol /\ "duration" \notin h.rejects
    THEN [comp EXCEPT !.duration = DURATION(c)]
    ELSE comp
\* one try block holds both writes: a rejected width write skips the height write
SyncSize(comp, c, h) ==
    IF comp.width # COMP_WIDTH(c) \/ comp.height # COMP_HEIGHT(c)
    THEN IF "width" \in h.rejects THEN comp
         ELSE IF "height" \in h.rejects THEN [comp EXCEPT !.width = COMP_WIDTH(c)]
         ELSE [comp EXCEPT !.width = COMP_WIDTH(c), !.height = COMP_HEIGHT(c)]
    ELSE comp
\* displayStartFrame = GLOBAL_FIRST; on a throw displayStartTime = (GLOBAL_FIRST - 1) / FRAME_RATE,
\* which the host shows as the frame displayStartTime * frameRate
SyncDisplayStart(comp, c, h) ==
    IF "displayStartFrame" \notin h.rejects
    THEN [comp EXCEPT !.displayStartFrame = GLOBAL_FIRST(c)]
    ELSE IF "displayStartTime" \notin h.rejects
    THEN [comp EXCEPT !.displayStartFrame =
              ((GLOBAL_FIRST(c) - 1) * comp.frameRate) \div FRAME_RATE(c)]
    ELSE comp
\* try { comp.workAreaStart = 0; comp.workAreaDuration = DURATION; } catch (e) {}
SyncWorkArea(comp, c, h) ==
    IF "workAreaStart" \in h.rejects THEN comp
    ELSE IF "workAreaDuration" \in h.rejects THEN [comp EXCEPT !.workAreaStart = 0]
    ELSE [comp EXCEPT !.workAreaStart = 0, !.workAreaDuration = DURATION(c)]

syncCompSettings(comp, c, h) ==
    SyncWorkArea(SyncDisplayStart(SyncSize(SyncDuration(SyncFrameRate(comp, c, h), c, h), c, h), c, h), c, h)

\* index in g.comps of the first composition named name, 0 if none
findCompByName(g, name) ==
    First({i \in DOMAIN g.comps : g.comps[i].name = name})

\* proj.items.addComp(name, COMP_WIDTH, COMP_HEIGHT, 1.0, DURATION, FRAME_RATE)
NewComp(id, name, c) ==
    [id |-> id, name |-> name, frameRate |-> FRAME_RATE(c), duration |-> DURATION(c),
     width |-> COMP_WIDTH(c), height |-> COMP_HEIGHT(c), displayStartFrame |-> 0,
     workAreaStart |-> 0, workAreaDuration |-> DURATION(c), layers |-> <<>>]

\* a faulty ensureComp that creates without looking
ensureComp_Always(g, name, c, h) ==
    [g |-> [g EXCEPT !.comps = Append(g.comps,
                              syncCompSettings(NewComp(g.nextId, name, c), c, h)),
                     !.nextId = g.nextId + 1],
     ix |-> Len(g.comps) + 1]

\* the graph after ensureComp(name), and the index of the composition it returns
ensureComp(g, name, c, h) ==
    LET i == findCompByName(g, name) IN
    IF i = 0
    THEN [g |-> [g EXCEPT !.comps = Append(g.comps,
                              syncCompSettings(NewComp(g.nextId, name, c), c, h)),
                          !.nextId = g.nextId + 1],
          ix |-> Len(g.comps) + 1]
    ELSE [g |-> [g EXCEPT !.comps[i] = syncCompSettings(g.comps[i], c, h)],
          ix |-> i]


(***************************************************************************)
(* Media items.  g.footage holds the file-backed FootageItems in the       *)
(* project's order; the solids that addSolid creates are FootageItems      *)
(* without a file, named "<n> (Missing)", which neither lookup can match:  *)
(* they are counted in g.solids.                                           *)
(***************************************************************************)
findFootageByFirstFile(g, firstFile) ==
    First({i \in DOMAIN g.footage : g.footage[i].path = firstFile})

\* the exact pass, then the prefix pass with the suffix pattern
NameMatches(fname, name) ==
    IsPrefix(name, fname) /\ SuffixMatches(Drop(fname, Len(name)))
findFootageByName(g, name) ==
    LET exact == First({i \in DOMAIN g.footage : g.footage[i].name = name})
        smart == First({i \in DOMAIN g.footage : NameMatches(g.footage[i].name, name)})
    IN  IF exact # 0 THEN exact ELSE smart

\* footage.duration: the frames on disk at the conformed rate; a still has none
FootageDuration(f) == IF f.still THEN 0 ELSE Secs(FileFrames(f.path), f.conform)

\* sameNameFootage.replaceWithSequence(f, false): the same object, backed by
\* the new sequence; the host may rename the item after the new file
SwapSequence(f, path, h) ==
    [f EXCEPT !.path = path, !.still = FALSE,
              !.name = IF h.rename THEN FileName(path) ELSE f.name]
\* sameNameFootage.replace(f): the same object, backed by the one file
ReplaceStill(f, path, h) ==
    [f EXCEPT !.path = path, !.still = TRUE,
              !.name = IF h.rename THEN FileName(path) ELSE f.name]

\* a faulty case 2: the media item found by name is returned as it is, never re-pointed
SwapByName_Skip(g, i, firstFile, h) == g

\* case 2 of importOrUpdateSequence, sameNameFootage being g.footage[i]
SwapByName(g, i, firstFile, h) ==
    IF g.footage[i].path # firstFile
    THEN IF h.swapOk
         THEN [g EXCEPT !.footage[i] = SwapSequence(g.footage[i], firstFile, h)]
         ELSE IF h.replaceOk
         THEN [g EXCEPT !.footage[i] = ReplaceStill(g.footage[i], firstFile, h)]
         ELSE g
    ELSE g

\* proj.importFile(io) with io.sequence = true
ImportSequence(g, firstFile) ==
    [g EXCEPT !.footage = Append(g.footage,
                  [id |-> g.nextId, name |-> FileName(firstFile), path |-> firstFile,
                   conform |-> 24, still |-> FALSE]),
              !.nextId = g.nextId + 1]

\* the graph after importOrUpdateSequence(firstFile, layerName), the index in
\* g.footage of the item it returns (0: null), whether it threw, and the case
\* that returned: "none" (no file), "path" (case 1), "name" (case 2), "import" (case 3)
importOrUpdateSequence(g, firstFile, layerName, h) ==
    IF firstFile = NoPath \/ ~FileExists(firstFile)
    THEN [g |-> g, fx |-> 0, threw |-> FALSE, via |-> "none"]
    ELSE IF findFootageByFirstFile(g, firstFile) # 0
    THEN [g |-> g, fx |-> findFootageByFirstFile(g, firstFile), threw |-> FALSE, via |-> "path"]
    ELSE IF findFootageByName(g, layerName) # 0
    THEN [g |-> SwapByName(g, findFootageByName(g, layerName), firstFile, h),
          fx |-> findFootageByName(g, layerName), threw |-> FALSE, via |-> "name"]
    ELSE IF h.importOk
    THEN [g |-> ImportSequence(g, firstFile), fx |-> Len(g.footage) + 1, threw |-> FALSE,
          via |-> "import"]
    ELSE [g |-> g, fx |-> 0, threw |-> TRUE, via |-> "import"]

\* footage.mainSource.conformFrameRate = FRAME_RATE (a still has no frame rate to conform)
Conform(g, fx, c) ==
    IF fx # 0 /\ ~g.footage[fx].still
    THEN [g EXCEPT !.footage[fx].conform = FRAME_RATE(c)]
    ELSE g

(***************************************************************************)
(* Layers.  comp.layers[1] is the top layer; layers.add and addSolid put   *)
(* the new layer on top.  A layer's kind is what its source is: "footage", *)
(* "solid" (both FootageItems), "comp".                                    *)
(***************************************************************************)
IsFootageLayer(lay) == lay.kind \in {"footage", "solid"}

\* precomp.layers.add(footage)
NewFootageLayer(id, f) ==
    [id |-> id, name |-> Plain(f.name), kind |-> "footage", src |-> f.id,
     startTime |-> 0, inPoint |-> 0, outPoint |-> FootageDuration(f),
     remap |-> FALSE, keys |-> <<>>]

layerStartTime(first, c) == Secs(first - GLOBAL_FIRST(c), FRAME_RATE(c))
layerDuration(first, last, c) == Secs(last - first + 1, FRAME_RATE(c))
layerEndTime(first, last, c) == layerStartTime(first, c) + layerDuration(first, last, c)

\* targetLayer.startTime = ..; targetLayer.inPoint = ..; targetLayer.outPoint = ..
SetTiming(lay, first, last, c) ==
    [lay EXCEPT !.startTime = layerStartTime(first, c),
                !.inPoint = layerStartTime(first, c),
                !.outPoint = layerEndTime(first, last, c)]

\* the time-remap block: only when remapping can be enabled and is not yet
SetRemap(lay, f, first, last, c) ==
    IF ~f.still /\ ~lay.remap
       /\ Abs(FootageDuration(f) - layerDuration(first, last, c)) > Tol
    THEN [lay EXCEPT !.remap = TRUE,
                     !.keys = << <<layerStartTime(first, c), 0>>,
                                 <<layerEndTime(first, last, c), FootageDuration(f)>> >>]
    ELSE lay

\* find the layer, add or rebind it: the layers, the target's id, the ids used
BindSourceLayer(layers, f, layerName, nextId, h) ==
    LET P(l) == l.name = layerName /\ IsFootageLayer(l)
        ti == First({i \in DOMAIN layers : P(layers[i])})
        Other(l) == l.id # layers[ti].id
    IN  IF ti = 0
        THEN [layers |-> <<NewFootageLayer(nextId, f)>> \o layers, id |-> nextId, used |-> 1]
        ELSE IF layers[ti].kind # "footage" \/ layers[ti].src # f.id
        THEN IF h.rebindOk
             THEN [layers |-> [layers EXCEPT ![ti].src = f.id, ![ti].kind = "footage"],
                   id |-> layers[ti].id, used |-> 0]
             ELSE [layers |-> <<NewFootageLayer(nextId, f)>> \o SelectSeq(layers, Other),
                   id |-> nextId, used |-> 1]
        ELSE [layers |-> layers, id |-> layers[ti].id, used |-> 0]

\* a faulty ending that leaves the duplicates of the target in place
FinishSourceLayer_KeepDuplicates(layers, tid, f, layerName, first, last, c) ==
    [i \in DOMAIN layers |->
        IF layers[i].id = tid
        THEN SetRemap(SetTiming([layers[i] EXCEPT !.name = layerName], first, last, c),
                      f, first, last, c)
        ELSE layers[i]]

\* the layers after naming and timing the target and removing its duplicates
FinishSourceLayer(layers, tid, f, layerName, first, last, c) ==
    LET Keep(l) == ~(l.id # tid /\ l.name = layerName /\ IsFootageLayer(l))
        Fix(l) == IF l.id = tid
                  THEN SetRemap(SetTiming([l EXCEPT !.name = layerName], first, last, c),
                                f, first, last, c)
                  ELSE l
        kept == SelectSeq(layers, Keep)
    IN  [i \in DOMAIN kept |-> Fix(kept[i])]

\* the graph after ensureSourceLayer(precomp, footage, layerName, startFrame, endFrame),
\* precomp being g.comps[ci] and footage g.footage[fx]
ensureSourceLayer(g, ci, fx, layerName, first, last, c, h) ==
    LET b == BindSourceLayer(g.comps[ci].layers, g.footage[fx], layerName, g.nextId, h)
    IN  [g EXCEPT !.comps[ci].layers =
                      FinishSourceLayer(b.layers, b.id, g.footage[fx], layerName, first, last, c),
                  !.nextId = g.nextId + b.used]


(***************************************************************************)
(* One iteration of the item loop of AEBridge_Startup.jsx.                 *)
(***************************************************************************)
\* preComp.layers.addSolid([1, 0, 0], it.name + " (Missing)", ...), startTime 0, outPoint DURATION
NewPlaceholder(id, n, c) ==
    [id |-> id, name |-> MissingName(n), kind |-> "solid", src |-> 0,
     startTime |-> 0, inPoint |-> 0, outPoint |-> DURATION(c),
     remap |-> FALSE, keys |-> <<>>]

\* mainComp.layers.add(preComp), named preName, startTime 0, outPoint DURATION
NewNestedLayer(id, pre, c) ==
    [id |-> id, name |-> pre.name, kind |-> "comp", src |-> pre.id,
     startTime |-> 0, inPoint |-> 0, outPoint |-> DURATION(c),
     remap |-> FALSE, keys |-> <<>>]

\* a destructive rebuild: every layer of g.comps[ci] goes
RemoveNamed_All(g, ci, name) ==
    [g EXCEPT !.comps[ci].layers = <<>>]

\* remove every layer of g.comps[ci] whose name is name
RemoveNamed(g, ci, name) ==
    LET Keep(l) == l.name # name IN
    [g EXCEPT !.comps[ci].layers = SelectSeq(g.comps[ci].layers, Keep)]

\* a faulty missing-footage branch: the placeholder is added, the source layers stay
PlaceMissing_KeepSource(g, ci, n, c) ==
    [g EXCEPT !.comps[ci].layers = <<NewPlaceholder(g.nextId, n, c)>> \o g.comps[ci].layers,
              !.nextId = g.nextId + 1,
              !.solids = g.solids + 1]

\* the missing-footage branch: drop the source layers, add the placeholder
PlaceMissing(g, ci, n, c) ==
    LET g1 == RemoveNamed(g, ci, SourceName(n)) IN
    [g1 EXCEPT !.comps[ci].layers = <<NewPlaceholder(g1.nextId, n, c)>> \o g1.comps[ci].layers,
               !.nextId = g1.nextId + 1,
               !.solids = g1.solids + 1]

CompName(g, id) ==
    g.comps[First({i \in DOMAIN g.comps : g.comps[i].id = id})].name

\* a faulty nesting that adds the layer without looking
NestIntoMain_Always(g, mi, ci, c) ==
    [g EXCEPT !.comps[mi].layers =
                  <<NewNestedLayer(g.nextId, g.comps[ci], c)>> \o g.comps[mi].layers,
              !.nextId = g.nextId + 1]

\* nest preComp into mainComp unless a layer of mainComp has a composition named preName as source
NestIntoMain(g, mi, ci, c) ==
    IF \E l \in Range(g.comps[mi].layers) :
           l.kind = "comp" /\ CompName(g, l.src) = g.comps[ci].name
    THEN g
    ELSE [g EXCEPT !.comps[mi].layers =
                       <<NewNestedLayer(g.nextId, g.comps[ci], c)>> \o g.comps[mi].layers,
                   !.nextId = g.nextId + 1]

\* it.first_file || it.path
ItemFile(it) == it.path

\* the graph after the loop body for item it, mainComp being g.comps[mi];
\* threw: the body threw (the fresh import failed) and the run ends in the catch block
ReconcileOne(g, mi, it, c, h) ==
    LET e == ensureComp(g, PreName(it.name), c, h)
        r == importOrUpdateSequence(e.g, ItemFile(it), it.name, h)
        g2 == RemoveNamed(Conform(r.g, r.fx, c), e.ix, MissingName(it.name))
    IN  IF r.threw THEN [g |-> r.g, threw |-> TRUE, via |-> r.via]
        ELSE IF r.fx = 0
        THEN [g |-> PlaceMissing(g2, e.ix, it.name, c), threw |-> FALSE, via |-> r.via]
        ELSE [g |-> NestIntoMain(
                        ensureSourceLayer(g2, e.ix, r.fx, SourceName(it.name),
                                          it.first, it.last, c, h),
                        mi, e.ix, c),
              threw |-> FALSE, via |-> r.via]


(***************************************************************************)
(* The output module.  Its state is the sequence of writes made to it      *)
(* (template applications, settings, the destination file), in order.  A   *)
(* write the host rejects throws and leaves no entry.                      *)
(***************************************************************************)
Write(op, arg, val) == [op |-> op, arg |-> arg, val |-> val]
FileWrite(path) == Write("file", path, 0)
IsFileWrite(w) == w.op = "file"

\* the first of the host's templates (in the host's order) that is one of names;
\* "none" if there is none
FirstOffered(templates, names) ==
    LET i == First({k \in DOMAIN templates : templates[k] \in names}) IN
    IF i = 0 THEN "none" ELSE templates[i]

\* applyTemplateByNames(om, names): the log after it and the name it returns ("none": null)
applyTemplateByNames(log, names, h) ==
    IF FirstOffered(h.templates, names) # "none" /\ h.applyOk
    THEN [log |-> Append(log, Write("applyTemplate", FirstOffered(h.templates, names), 0)),
          applied |-> FirstOffered(h.templates, names)]
    ELSE [log |-> log, applied |-> "none"]

\* try { om.setSetting(section, key, value); } catch (e) {}
TrySetting(log, key, val, h) ==
    IF key \in h.omRejects THEN log ELSE Append(log, Write("setSetting", key, val))

\* 'Start Numbering', and on a throw 'Starting #'
SetNumbering(log, first, h) ==
    IF "Start Numbering" \notin h.omRejects
    THEN Append(log, Write("setSetting", "Start Numbering", first))
    ELSE TrySetting(log, "Starting #", first, h)

\* configureWithTemplate(om, outfile, name): log, result, and whether it warned
configureWithTemplate(log, outfile, name, h) ==
    LET a == applyTemplateByNames(log, {name}, h) IN
    IF a.applied = "none"
    THEN [log |-> a.log, ok |-> FALSE, warned |-> TRUE]
    ELSE [log |-> Append(a.log, FileWrite(outfile)), ok |-> TRUE, warned |-> FALSE]

DefaultTemplates ==
    {"_HIDDEN X-Factor 8", "_HIDDEN X-Factor 8 Premul", "PNG Sequence",
     "Lossless with Alpha", "Lossless"}

\* the names argument of configurePNGDefault's applyTemplateByNames call, in its order
DefaultTemplateOrder ==
    <<"_HIDDEN X-Factor 8", "_HIDDEN X-Factor 8 Premul", "PNG Sequence",
      "Lossless with Alpha", "Lossless">>

SettingKeys == {"Channels", "Depth", "Color", "PNG Quality", "Format Quality",
                "Start Numbering", "Starting #"}

\* faulty steps 2 to 4: a rejected setting write is not caught, and the
\* destination file is never set
PNGSettings_Unguarded(log, outfile, first, h) ==
    IF SettingKeys \cap h.omRejects # {}
    THEN log
    ELSE Append(Append(log, Write("setSetting", "Start Numbering", first)), FileWrite(outfile))

\* steps 2 to 4 of configurePNGDefault
PNGSettings(log, outfile, first, h) ==
    Append(
      SetNumbering(
        TrySetting(TrySetting(TrySetting(TrySetting(TrySetting(log,
          "Channels", 0, h), "Depth", 0, h), "Color", 0, h),
          "PNG Quality", 0, h), "Format Quality", 0, h),
        first, h),
      FileWrite(outfile))

\* a faulty configurePNGDefault: the destination file is set first, before the format is known
configurePNGDefault_FileFirst(log, outfile, first, h) ==
    LET a == applyTemplateByNames(Append(log, FileWrite(outfile)), DefaultTemplates, h) IN
    IF a.applied # "none"
    THEN [log |-> PNGSettings(a.log, outfile, first, h), ok |-> TRUE, warned |-> FALSE]
    ELSE IF "Format" \notin h.omRejects
    THEN [log |-> PNGSettings(Append(a.log, Write("setSetting", "Format", 0)), outfile, first, h),
          ok |-> TRUE, warned |-> FALSE]
    ELSE [log |-> a.log, ok |-> FALSE, warned |-> TRUE]

\* configurePNGDefault(om, outfile)
configurePNGDefault(log, outfile, first, h) ==
    LET a == applyTemplateByNames(log, DefaultTemplates, h) IN
    IF a.applied # "none"
    THEN [log |-> PNGSettings(a.log, outfile, first, h), ok |-> TRUE, warned |-> FALSE]
    ELSE IF "Format" \notin h.omRejects
    THEN [log |-> PNGSettings(Append(a.log, Write("setSetting", "Format", 0)), outfile, first, h),
          ok |-> TRUE, warned |-> FALSE]
    ELSE [log |-> a.log, ok |-> FALSE, warned |-> TRUE]

\* a configureOutputModule that falls through to the default path when the
\* named template cannot be applied
configureOutputModule_Fallback(log, outfile, templateName, first, h) ==
    LET w == configureWithTemplate(log, outfile, templateName, h) IN
    IF templateName # "none" /\ w.ok
    THEN [log |-> SetNumbering(w.log, first, h), ok |-> TRUE, warned |-> FALSE]
    ELSE configurePNGDefault(w.log, outfile, first, h)

\* configureOutputModule(om, outfile); templateName "none" is the empty string
configureOutputModule(log, outfile, templateName, first, h) ==
    LET w == configureWithTemplate(log, outfile, templateName, h) IN
    IF templateName # "none"
    THEN IF w.ok
         THEN [log |-> SetNumbering(w.log, first, h), ok |-> TRUE, warned |-> FALSE]
         ELSE w
    ELSE configurePNGDefault(log, outfile, first, h)

\* faulty last writes: the destination file, then the XMP flag
FinalWrites_XmpLast(log, outfile, h) ==
    TrySetting(Append(log, FileWrite(outfile)), "includeSourceXMP", 0, h)

\* try { om.includeSourceXMP = true; } catch (e) {}  then  om.file = outfile
FinalWrites(log, outfile, h) ==
    Append(TrySetting(log, "includeSourceXMP", 0, h), FileWrite(outfile))

\* templates[ti].toLowerCase().indexOf('exr') >= 0
ContainsExr(name) == name \in {"OpenEXR"}

\* the render step of AEBridge_Startup.jsx, lines 689-707: the writes to the new output module
StartupOutputWrites(outfile, h) ==
    LET first == <<FileWrite(outfile)>>
        ti == First({k \in DOMAIN h.templates : ContainsExr(h.templates[k])})
        tpl == IF ti # 0 /\ h.applyOk
               THEN first \o <<Write("applyTemplate", h.templates[ti], 0), FileWrite(outfile)>>
               ELSE first
    IN  FinalWrites(tpl, outfile, h)

(***************************************************************************)
(* AEBridge_Render.jsx: the composition settings it writes.                *)
(***************************************************************************)
\* cfg.global_first || 0, cfg.global_last || 0
globalFirst(c) == OrDefault(c.global_first, 0)
globalLast(c) == OrDefault(c.global_last, 0)
\* Math.max(0, globalLast - globalFirst + 1)
durationFrames(c) ==
    IF globalLast(c) - globalFirst(c) + 1 > 0 THEN globalLast(c) - globalFirst(c) + 1 ELSE 0

\* lines 165-174: only when globalFirst is neither 0 nor 1
RenderDisplayStart(comp, c, h) ==
    IF globalFirst(c) \in {0, 1} THEN comp
    ELSE IF "displayStartFrame" \notin h.rejects
    THEN [comp EXCEPT !.displayStartFrame = globalFirst(c)]
    ELSE IF "displayStartTime" \notin h.rejects
    THEN [comp EXCEPT !.displayStartFrame =
              ((globalFirst(c) - 1) * comp.frameRate) \div FRAME_RATE(c)]
    ELSE comp
\* try { mainComp.frameRate = frameRate; } catch (e) {}
RenderFrameRate(comp, c, h) ==
    IF "frameRate" \in h.rejects THEN comp ELSE [comp EXCEPT !.frameRate = FRAME_RATE(c)]
\* try { mainComp.duration = durationFrames / frameRate; } catch (e) {}
\* (the host throws on a duration that is not positive)
RenderDuration(comp, c, h) ==
    IF "duration" \in h.rejects \/ durationFrames(c) = 0 THEN comp
    ELSE [comp EXCEPT !.duration = Secs(durationFrames(c), FRAME_RATE(c))]
\* a faulty configuration that also resets the work area to the new duration
RenderCompSettings_WorkArea(comp, c, h) ==
    [RenderDuration(RenderFrameRate(RenderDisplayStart(comp, c, h), c, h), c, h)
        EXCEPT !.workAreaStart = 0,
               !.workAreaDuration = Secs(durationFrames(c), FRAME_RATE(c))]
RenderCompSettings(comp, c, h) ==
    RenderDuration(RenderFrameRate(RenderDisplayStart(comp, c, h), c, h), c, h)

\* lines 192-201: drop the queue items of mainComp, add one
RenderQueueItem(rq, id) ==
    LET Others(x) == x # id IN Append(SelectSeq(rq, Others), id)

(***************************************************************************)
(* The project's color policy (lines 200-249).  The host h rejects the     *)
(* color writes named in h.colorRejects: "colorEngine", "linearBlending",  *)
(* and a working space by its name; h.colorSettings says whether           *)
(* proj.colorSettings is there ("yes"), is not ("no"), or throws when read *)
(* ("throws").                                                             *)
(***************************************************************************)
ACEScg == "ACEScg"
sRGB == "sRGB IEC61966-2.1"
Rec709 == "Rec. 709 Gamma 2.4"
\* config.nuke_working_space || "linear"
NUKE_WORKING_SPACE(c) == IF c.nuke_working_space = "" THEN "linear" ELSE c.nuke_working_space
\* the branch of the policy: "ACES", "linear", "sRGB", "Rec709", "default"
ColorBranch(c) ==
    IF c.aces_compliant THEN "ACES"
    ELSE IF NUKE_WORKING_SPACE(c) \in {"linear", "Linear"} THEN "linear"
    ELSE IF NUKE_WORKING_SPACE(c) = "sRGB" THEN "sRGB"
    ELSE IF NUKE_WORKING_SPACE(c) \in {"Rec709", "rec709"} THEN "Rec709"
    ELSE "default"
\* the working space the branches other than ACES write
BranchSpace(c) == IF ColorBranch(c) = "Rec709" THEN Rec709 ELSE sRGB
\* the ACES branch: the color engine, then ACEScg, then sRGB in each catch block;
\* threw: the last sRGB write threw out of the branch
AcesPolicy(g, h) ==
    LET g1 == IF h.colorSettings = "yes" /\ "colorEngine" \notin h.colorRejects
              THEN [g EXCEPT !.colorEngine = "OCIO"] ELSE g
    IN  IF h.colorSettings = "yes" /\ ACEScg \notin h.colorRejects
        THEN [g |-> [g1 EXCEPT !.workingSpace = ACEScg], threw |-> FALSE]
        ELSE IF sRGB \notin h.colorRejects
        THEN [g |-> [g1 EXCEPT !.workingSpace = sRGB], threw |-> FALSE]
        ELSE [g |-> g1, threw |-> TRUE]
\* the branch's working-space write
SpacePolicy(g, c, h) ==
    IF ColorBranch(c) = "ACES" THEN AcesPolicy(g, h)
    ELSE IF BranchSpace(c) \notin h.colorRejects
    THEN [g |-> [g EXCEPT !.workingSpace = BranchSpace(c)], threw |-> FALSE]
    ELSE [g |-> g, threw |-> TRUE]
\* proj.linearBlending = true, reached only when nothing was thrown before it
BlendingPolicy(w, h) ==
    IF w.threw THEN w
    ELSE IF "linearBlending" \in h.colorRejects THEN [w EXCEPT !.threw = TRUE]
    ELSE [w EXCEPT !.g.linearBlending = TRUE]
\* a block that lets the error out
ColorCatch_Rethrow(threw) == threw
\* } catch (e) {}  (line 249): whether the error leaves the block
ColorCatch(threw) == FALSE
\* the project after the color block, and whether the block threw
ColorPolicy(g, c, h) ==
    LET w == BlendingPolicy(SpacePolicy(g, c, h), h) IN
    [g |-> w.g, threw |-> ColorCatch(w.threw)]

(***************************************************************************)
(* Run control: the cancel flag, the inactivity budget, the progress       *)
(* window and the undo group.  Time is in milliseconds; idle is the time   *)
(* since lastUpdateTime (now - lastUpdateTime).                            *)
(***************************************************************************)
TIMEOUT_MS == 180000
UPDATE_THROTTLE == 200

\* a loop that never looks at the flag
CancelRequested_Never(flag) == FALSE
\* if (cancelFlag) { ...; throw new Error("User cancelled"); }
CancelRequested(flag) == flag

\* checkTimeout(): now - lastUpdateTime > TIMEOUT_MS
checkTimeout(t) == t > TIMEOUT_MS

\* updateProgress(text, value, forceUpdate): now - lastUpdateTime after the call
\* (lastUIUpdate and lastUpdateTime are equal from the first forced call on)
updateProgress(t, visible, forceUpdate) ==
    IF ~visible THEN t
    ELSE IF ~forceUpdate /\ t < UPDATE_THROTTLE THEN t
    ELSE 0

\* a catch block that alerts whatever was thrown
ShowsAlert_Always(msg) == TRUE
\* if (e.message !== "User cancelled" && e.message !== "Script timeout") alert(...)
ShowsAlert(msg) == msg \notin {"User cancelled", "Script timeout"}

\* a script end that leaves the undo group open
EndUndo_Skip(log) == log
\* app.endUndoGroup()
EndUndo(log) == Append(log, "end")

(***************************************************************************)
(* Inputs.  A scenario family bounds what one behaviour explores: the      *)
(* configs of a family differ in the items' names and paths ("footage"),   *)
(* in the frame range, frame rate and item range ("timing"), or in the     *)
(* output settings ("render").                                             *)
(***************************************************************************)
ProjectPath == "/p/shot.aep"
OutputPath == "/out/shot.[#].png"

BaseConfig ==
    [frame_rate |-> Absent, global_first |-> Absent, global_last |-> Absent,
     comp_name |-> <<>>, width |-> Absent, height |-> Absent, items |-> <<>>, project_path |-> ProjectPath,
     output_path |-> NoPath, should_render |-> FALSE, template_name |-> "none",
     aces_compliant |-> FALSE, nuke_working_space |-> ""]

Item(n, p, first, last) == [name |-> n, path |-> p, first |-> first, last |-> last]

\* item lists of at most two items with distinct names
\* (item b only ever points at a file that exists)
FootageItems ==
    {Item(NameA, p, 1, 10) : p \in Paths} \cup {Item(NameB, p, 1, 10) : p \in {PathXA, PathYA}}
FootageLists ==
    {<<>>} \cup {<<i>> : i \in FootageItems}
           \cup {<<i, j>> : i \in {x \in FootageItems : x.name = NameB},
                            j \in {x \in FootageItems : x.name = NameA}}
           \cup {<<i, j>> : i \in {x \in FootageItems : x.name = NameA},
                            j \in {x \in FootageItems : x.name = NameB}}
FootageConfigs == {[BaseConfig EXCEPT !.items = l] : l \in FootageLists}

GlobalRanges == {<<0, 10>>, <<1, 10>>, <<5, 10>>, <<-3, 0>>}
FrameRates == {24, 25}
ItemRanges == {<<1, 10>>, <<5, 10>>, <<5, 5>>}
TimingConfigs ==
    {[BaseConfig EXCEPT !.global_first = Given(r[1]), !.global_last = Given(r[2]),
                        !.frame_rate = Given(fr),
                        !.items = <<Item(NameA, PathXA, ir[1], ir[2])>>] :
        r \in GlobalRanges, fr \in FrameRates, ir \in ItemRanges}

RenderRanges == {<<0, 0>>, <<5, 10>>}
TemplateNames == {"none", "Custom", "Gone"}
\* Startup configs that may render, and the configs of the render-only script
RenderStartupConfigs ==
    {[BaseConfig EXCEPT !.global_first = Given(r[1]), !.global_last = Given(r[2]),
                        !.items = <<Item(NameA, PathXA, 1, 10)>>,
                        !.should_render = s, !.output_path = o] :
        r \in RenderRanges, s \in BOOLEAN, o \in {OutputPath, NoPath}}
RenderConfigs ==
    {[BaseConfig EXCEPT !.global_first = Given(r[1]), !.global_last = Given(r[2]),
                        !.output_path = OutputPath, !.template_name = tn] :
        r \in RenderRanges, tn \in TemplateNames}
    \cup {[BaseConfig EXCEPT !.output_path = NoPath],
          [BaseConfig EXCEPT !.project_path = NoPath, !.output_path = OutputPath]}

\* configs without items that differ in every setting of the main composition
CompConfigs ==
    {BaseConfig,
     [BaseConfig EXCEPT !.frame_rate = Given(25), !.global_first = Given(5),
                        !.global_last = Given(20), !.width = Given(1280),
                        !.height = Given(720)]}

\* configs of runs that are cancelled, time out or lack the project path
ControlConfigs ==
    {[BaseConfig EXCEPT !.items = l] :
        l \in {<<>>, <<Item(NameA, PathXA, 1, 10)>>,
               <<Item(NameA, PathXA, 1, 10), Item(NameB, PathYA, 1, 10)>>}}
    \cup {[BaseConfig EXCEPT !.items = <<Item(NameA, PathXA, 1, 10)>>,
                             !.should_render = TRUE, !.output_path = OutputPath],
          [BaseConfig EXCEPT !.project_path = NoPath]}

\* configs of every branch of the color policy
ColorConfigs ==
    {[BaseConfig EXCEPT !.items = <<Item(NameA, PathXA, 1, 10)>>,
                        !.aces_compliant = a, !.nuke_working_space = w] :
        a \in {FALSE}, w \in {"", "sRGB", "Rec709", "ACEScct"}}
    \cup {[BaseConfig EXCEPT !.items = <<Item(NameA, PathXA, 1, 10)>>,
                             !.aces_compliant = TRUE]}

Families == {"footage", "timing", "render", "comp", "control", "color"}
Configs(f) ==
    IF f = "footage" THEN FootageConfigs
    ELSE IF f = "timing" THEN TimingConfigs
    ELSE IF f = "comp" THEN CompConfigs
    ELSE IF f = "control" THEN ControlConfigs
    ELSE IF f = "color" THEN ColorConfigs
    ELSE RenderStartupConfigs

\* the time the host operations of one item may take
ItemTimes(f) == IF f = "control" THEN {100, 200000} ELSE {0}
\* the families in which the user cancels
CancelFamilies == {"control", "render"}

\* the host with every primitive working and no output template
HostOK == [rejects |-> {}, swapOk |-> TRUE, replaceOk |-> TRUE, rebindOk |-> TRUE,
           importOk |-> TRUE, rename |-> FALSE,
           colorSettings |-> "yes", colorRejects |-> {},
           templates |-> <<>>, applyOk |-> TRUE, omRejects |-> {}]
OmHost(tl, a, r) == [HostOK EXCEPT !.templates = tl, !.applyOk = a, !.omRejects = r]
\* the hosts of a family: what the host lacks or rejects during one invocation
Hosts(f) ==
    IF f = "footage"
    THEN {HostOK, [HostOK EXCEPT !.rename = TRUE], [HostOK EXCEPT !.swapOk = FALSE],
          [HostOK EXCEPT !.swapOk = FALSE, !.replaceOk = FALSE],
          [HostOK EXCEPT !.rebindOk = FALSE],
          [HostOK EXCEPT !.importOk = FALSE]}
    ELSE IF f = "timing" THEN {HostOK}
    ELSE IF f = "control" THEN {HostOK, [HostOK EXCEPT !.importOk = FALSE]}
    ELSE IF f = "color"
    THEN {[HostOK EXCEPT !.colorRejects = r] :
            r \in {{}, {"colorEngine"}, {ACEScg}, {sRGB}, {Rec709}, {"linearBlending"},
                   {ACEScg, sRGB},
                   {"colorEngine", ACEScg, sRGB, Rec709, "linearBlending"}}}
         \cup {[HostOK EXCEPT !.colorSettings = "no"],
               [HostOK EXCEPT !.colorSettings = "throws"],
               [HostOK EXCEPT !.colorSettings = "no", !.colorRejects = {sRGB}]}
    ELSE IF f = "comp"
    THEN {[HostOK EXCEPT !.rejects = r] :
            r \in {{}, {"frameRate"}, {"duration"}, {"width"}, {"height"},
                   {"displayStartFrame"}, {"displayStartFrame", "displayStartTime"},
                   {"workAreaStart"}, {"workAreaDuration"}, {"frameRate", "height"}}}
    ELSE {OmHost(<<>>, TRUE, {}),
          OmHost(<<>>, TRUE, {"Format"}),
          OmHost(<<"Custom">>, TRUE, {}),
          OmHost(<<"Custom">>, TRUE, {"Start Numbering"}),
          OmHost(<<"Custom">>, FALSE, {"Format"}),
          OmHost(<<"Lossless", "Custom">>, TRUE, {"Start Numbering", "Starting #"}),
          OmHost(<<"Lossless", "Custom">>, FALSE, {}),
          OmHost(<<"PNG Sequence", "Lossless">>, TRUE,
                 {"Channels", "Depth", "Color", "PNG Quality", "Format Quality",
                  "includeSourceXMP"}),
          OmHost(<<"Lossless", "PNG Sequence">>, TRUE, {}),
          OmHost(<<"Lossless">>, TRUE, SettingKeys),
          OmHost(<<"Custom">>, TRUE, SettingKeys),
          OmHost(<<>>, TRUE, {"Depth", "Starting #"}),
          OmHost(<<"OpenEXR", "Custom">>, TRUE, {})}
\* no primitive failed or is lacking
Succeeds(h) ==
    /\ h.rejects = {} /\ h.swapOk /\ h.replaceOk /\ h.rebindOk /\ h.importOk
    /\ h.colorRejects = {} /\ h.colorSettings = "yes"
    /\ h.applyOk /\ h.omRejects = {}

\* app.newProject()
EmptyProject ==
    [comps |-> <<>>, footage |-> <<>>, nextId |-> 1, solids |-> 0, rq |-> <<>>,
     colorEngine |-> "Adobe", workingSpace |-> "None", linearBlending |-> FALSE]

(***************************************************************************)
(* State.                                                                  *)
(***************************************************************************)
VARIABLES
    family,    \* the scenario family of this behaviour
    disk,      \* the saved project: [exists, g]
    proj,      \* the project open in the host
    pc,        \* "idle", or the step the running script is at
    script,    \* the script of the current (or last) invocation: "startup", "render"
    cfg,       \* the config of the current (or last) invocation
    idx,       \* Startup: the index of the next item (1-based)
    mainIx,    \* mainComp, as an index into proj.comps (0: none)
    omLog,     \* the writes made to the output module of this invocation
    configured,\* Render: what configureOutputModule returned: "none", "ok", "failed"
    rendered,  \* rq.render() was called in this invocation
    alerts,    \* the alerts shown in this invocation
    result,    \* the sentinel the last invocation wrote: "none", "success", "error"
    runs,      \* invocations started
    edits,     \* user edits made
    dirty,     \* the saved project was edited since the last invocation
    host,      \* the host's behaviour during the current (or last) invocation
    via,       \* Startup: how the last item's footage was resolved
    pre,       \* the project as the current invocation found it
    prevCfg,   \* the config of the invocation before the current one
    chained,   \* the invocation before the current one was a Startup run that
               \* succeeded with a working host, and the project was not edited since
    cancelFlag,\* cancelFlag
    idle,      \* now - lastUpdateTime, in milliseconds
    winOpen,   \* the progress window is open (visible)
    undoLog,   \* the beginUndoGroup and endUndoGroup calls of this invocation
    thrown     \* the message of the error that ended this invocation, "none" if none

\* the state of run control
ctl == <<cancelFlag, idle, winOpen, undoLog, thrown>>

vars == <<family, disk, proj, pc, script, cfg, idx, mainIx, omLog, configured, rendered,
          alerts, result, runs, edits, dirty, host, via, pre, prevCfg, chained,
          cancelFlag, idle, winOpen, undoLog, thrown>>

Init ==
    /\ family \in Families
    /\ disk = [exists |-> FALSE, g |-> EmptyProject]
    /\ proj = EmptyProject
    /\ pc = "idle"
    /\ script = "none"
    /\ cfg = BaseConfig
    /\ idx = 0
    /\ mainIx = 0
    /\ omLog = <<>>
    /\ configured = "none"
    /\ rendered = FALSE
    /\ alerts = <<>>
    /\ result = "none"
    /\ runs = 0
    /\ edits = 0
    /\ dirty = FALSE
    /\ host = HostOK
    /\ via = "none"
    /\ pre = EmptyProject
    /\ prevCfg = BaseConfig
    /\ chained = FALSE
    /\ cancelFlag = FALSE
    /\ idle = 0
    /\ winOpen = FALSE
    /\ undoLog = <<>>
    /\ thrown = "none"

\* what every invocation does to the bookkeeping when it starts
Begin(s, c, h) ==
    /\ pc = "idle"
    /\ runs < MaxRuns
    /\ script' = s
    /\ cfg' = c
    /\ host' = h
    /\ prevCfg' = cfg
    /\ chained' = (/\ script = "startup" /\ result = "success" /\ Succeeds(host) /\ ~dirty
                   /\ cfg.project_path # NoPath)
    /\ dirty' = FALSE
    /\ runs' = runs + 1
    /\ omLog' = <<>>
    /\ configured' = "none"
    /\ rendered' = FALSE
    /\ via' = "none"
    /\ idle' = 0
    /\ UNCHANGED <<family, disk, edits>>

\* createProgressWindow(); app.beginUndoGroup(..); try {
Running ==
    /\ cancelFlag' = FALSE
    /\ winOpen' = TRUE
    /\ undoLog' = <<"begin">>
    /\ thrown' = "none"

\* progressWin.close(): the window's onClose sets cancelFlag
CloseWindow ==
    /\ winOpen' = FALSE
    /\ cancelFlag' = TRUE

(***************************************************************************)
(* AEBridge_Startup.jsx.                                                   *)
(***************************************************************************)
\* lines 725-742: the catch block, then app.endUndoGroup()
Catch(msg) ==
    /\ pc' = "idle"
    /\ result' = "error"
    /\ thrown' = msg
    /\ CloseWindow
    /\ alerts' = IF ShowsAlert(msg) THEN Append(alerts, "error") ELSE alerts
    /\ undoLog' = EndUndo(undoLog)

\* lines 155-563: the progress window, the undo group, the config, open or create
\* the project, ensure the main composition
StartupBegin ==
    \E c \in Configs(family), h \in Hosts(family) :
       LET opened == IF disk.exists /\ c.project_path # NoPath THEN disk.g ELSE EmptyProject
           cp == ColorPolicy(opened, c, h)
           e == ensureComp(cp.g, MainName(c), c, h)
       IN  /\ Begin("startup", c, h)
           /\ pre' = opened
           /\ IF cp.threw
              THEN /\ proj' = cp.g
                   /\ mainIx' = 0
                   /\ idx' = 0
                   /\ pc' = "idle"
                   /\ result' = "error"
                   /\ thrown' = "Host error"
                   /\ CloseWindow
                   /\ alerts' = <<"error">>
                   /\ undoLog' = EndUndo(<<"begin">>)
              ELSE /\ Running
                   /\ proj' = e.g
                   /\ mainIx' = e.ix
                   /\ idx' = 1
                   /\ pc' = "loop"
                   /\ result' = "none"
                   /\ alerts' = <<>>

\* lines 569-674: one iteration of the item loop
StartupItem ==
    /\ pc = "loop"
    /\ idx <= Len(cfg.items)
    /\ IF CancelRequested(cancelFlag)
       THEN Catch("User cancelled") /\ UNCHANGED <<proj, via, idx, idle>>
       ELSE IF checkTimeout(idle)
       THEN Catch("Script timeout") /\ UNCHANGED <<proj, via, idx, idle>>
       ELSE \E d \in ItemTimes(family) :
              LET r == ReconcileOne(proj, mainIx, cfg.items[idx], cfg, host) IN
                /\ proj' = r.g
                /\ via' = r.via
                /\ idle' = updateProgress(idle, winOpen, FALSE) + d
                /\ IF r.threw
                   THEN Catch("Host error") /\ idx' = idx
                   ELSE /\ idx' = idx + 1
                        /\ UNCHANGED <<pc, result, alerts, cancelFlag, winOpen, undoLog, thrown>>
    /\ UNCHANGED <<family, disk, script, cfg, mainIx, omLog, configured, rendered, runs,
                   edits, dirty, host, pre, prevCfg, chained>>

\* a faulty render condition: the output path is not looked at
ShouldRender_AnyPath(c) == c.should_render

\* line 685: SHOULD_RENDER && OUTPUT_PATH
ShouldRender(c) == c.should_render /\ c.output_path # NoPath

\* lines 676-723: save the project, render if asked to, close the window, write the
\* success sentinel; app.endUndoGroup().  prjFile of a config without project_path
\* is not the project file: the save goes elsewhere or throws
StartupEnd ==
    /\ pc = "loop"
    /\ idx > Len(cfg.items)
    /\ \E saved \in (IF cfg.project_path = NoPath THEN BOOLEAN ELSE {TRUE}) :
         IF ~saved
         THEN Catch("Host error") /\ UNCHANGED <<disk, proj, omLog, rendered, idle>>
         ELSE /\ disk' = IF cfg.project_path = NoPath THEN disk
                         ELSE [exists |-> TRUE, g |-> proj]
              /\ IF ShouldRender(cfg)
                 THEN /\ proj' = [proj EXCEPT !.rq = Append(proj.rq, proj.comps[mainIx].id)]
                      /\ omLog' = StartupOutputWrites(cfg.output_path, host)
                      /\ rendered' = TRUE
                 ELSE UNCHANGED <<proj, omLog, rendered>>
              /\ idle' = updateProgress(idle, winOpen, TRUE)
              /\ CloseWindow
              /\ undoLog' = EndUndo(undoLog)
              /\ pc' = "idle"
              /\ result' = "success"
              /\ UNCHANGED <<alerts, thrown>>
    /\ UNCHANGED <<family, script, cfg, idx, mainIx, configured, runs, edits, dirty,
                   host, via, pre, prevCfg, chained>>

(***************************************************************************)
(* AEBridge_Render.jsx.                                                    *)
(***************************************************************************)
\* alertAndStop(msg): log the error, close the window, alert, throw
Stop ==
    /\ pc' = "idle"
    /\ result' = "error"
    /\ thrown' = "Stop"
    /\ CloseWindow

\* lines 85-224: the progress window, the config, open the project, find and
\* configure the composition, queue it, take its output module
RenderBegin ==
    /\ family = "render"
    /\ \E c \in RenderConfigs, h \in Hosts(family) :
         LET mi == findCompByName(disk.g, MainName(c)) IN
         /\ Begin("render", c, h)
         /\ pre' = disk.g
         /\ idx' = 0
         /\ IF c.project_path = NoPath \/ c.output_path = NoPath \/ ~disk.exists
            THEN /\ Stop
                 /\ alerts' = <<"stop">>
                 /\ undoLog' = <<>>
                 /\ mainIx' = 0
                 /\ proj' = proj
            ELSE IF mi = 0
            THEN /\ Stop
                 /\ alerts' = <<"stop", "error">>
                 /\ undoLog' = EndUndo(<<"begin">>)
                 /\ mainIx' = 0
                 /\ proj' = disk.g
            ELSE /\ Running
                 /\ pc' = "configure"
                 /\ result' = "none"
                 /\ alerts' = <<>>
                 /\ mainIx' = mi
                 /\ proj' = [disk.g EXCEPT
                               !.comps[mi] = RenderCompSettings(disk.g.comps[mi], c, h),
                               !.rq = RenderQueueItem(disk.g.rq, disk.g.comps[mi].id)]

\* lines 285-309: configureOutputModule, and alertAndStop if it failed
RenderConfigure ==
    /\ pc = "configure"
    /\ LET r == configureOutputModule(omLog, cfg.output_path, cfg.template_name,
                                      globalFirst(cfg), host) IN
         /\ omLog' = r.log
         /\ IF r.ok
            THEN /\ configured' = "ok"
                 /\ pc' = "final"
                 /\ UNCHANGED <<result, alerts, cancelFlag, winOpen, undoLog, thrown>>
            ELSE /\ configured' = "failed"
                 /\ Stop
                 /\ alerts' = alerts \o <<"warning", "stop", "error">>
                 /\ undoLog' = EndUndo(undoLog)
    /\ UNCHANGED <<family, disk, proj, script, cfg, idx, mainIx, rendered, runs, edits,
                   dirty, host, via, pre, prevCfg, chained, idle>>

\* lines 311-357: the last writes, rq.render(), close the window, the success
\* sentinel; app.endUndoGroup()
RenderFinish ==
    /\ pc = "final"
    /\ omLog' = FinalWrites(omLog, cfg.output_path, host)
    /\ rendered' = TRUE
    /\ CloseWindow
    /\ undoLog' = EndUndo(undoLog)
    /\ pc' = "idle"
    /\ result' = "success"
    /\ UNCHANGED <<family, disk, proj, script, cfg, idx, mainIx, configured, alerts, runs,
                   edits, dirty, host, via, pre, prevCfg, chained, idle, thrown>>

(***************************************************************************)
(* The user, while a script runs: the Cancel button or the window's close  *)
(* box (cancelBtn.onClick, progressWin.onClose).                           *)
(***************************************************************************)
UserCancel ==
    /\ family \in CancelFamilies
    /\ pc # "idle"
    /\ winOpen
    /\ CloseWindow
    /\ UNCHANGED <<family, disk, proj, pc, script, cfg, idx, mainIx, omLog, configured,
                   rendered, alerts, result, runs, edits, dirty, host, via, pre, prevCfg,
                   chained, idle, undoLog, thrown>>

(***************************************************************************)
(* The user, between invocations: edits to the saved project.              *)
(***************************************************************************)
Edit(g) ==
    /\ pc = "idle"
    /\ disk.exists
    /\ edits < MaxEdits
    /\ runs < MaxRuns
    /\ disk' = [disk EXCEPT !.g = g]
    /\ edits' = edits + 1
    /\ dirty' = TRUE
    /\ UNCHANGED <<family, proj, pc, script, cfg, idx, mainIx, omLog, configured, rendered,
                   alerts, result, runs, host, via, pre, prevCfg, chained>>
    /\ UNCHANGED ctl

\* move and trim a footage layer by hand
UserEditTiming ==
    \E ci \in DOMAIN disk.g.comps :
      \E li \in DOMAIN disk.g.comps[ci].layers :
        /\ disk.g.comps[ci].layers[li].kind = "footage"
        /\ Edit([disk.g EXCEPT !.comps[ci].layers[li].startTime = 7,
                            !.comps[ci].layers[li].inPoint = 8,
                            !.comps[ci].layers[li].outPoint = 9])

\* duplicate a footage or solid layer: the copy, a new object of the same name,
\* goes on top of it
DuplicateLayer(g, ci, li) ==
    LET ls == g.comps[ci].layers
        copy == [ls[li] EXCEPT !.id = g.nextId]
    IN  [g EXCEPT !.comps[ci].layers = SubSeq(ls, 1, li - 1) \o <<copy>> \o Drop(ls, li - 1),
                  !.nextId = g.nextId + 1]
UserDuplicateLayer ==
    \E ci \in DOMAIN disk.g.comps :
      \E li \in DOMAIN disk.g.comps[ci].layers :
        /\ IsFootageLayer(disk.g.comps[ci].layers[li])
        /\ Edit(DuplicateLayer(disk.g, ci, li))

\* add a layer of the user's own, a solid named "user", on top of a composition
UserLayerName == Plain(<<"user">>)
UserLayer(id) ==
    [id |-> id, name |-> UserLayerName, kind |-> "solid", src |-> 0,
     startTime |-> 0, inPoint |-> 0, outPoint |-> TPS,
     remap |-> FALSE, keys |-> <<>>]
UserAddLayer ==
    \E ci \in DOMAIN disk.g.comps :
      Edit([disk.g EXCEPT !.comps[ci].layers = <<UserLayer(disk.g.nextId)>> \o @,
                          !.nextId = @ + 1])

\* save the open project as the last run left it (File > Save, or "Save" in the
\* host's prompt when the next app.open finds the open project modified)
UserSaveProject ==
    /\ script # "none"
    /\ result = "success"
    /\ cfg.project_path # NoPath
    /\ ~dirty
    /\ proj # disk.g
    /\ Edit(proj)

Next ==
    \/ StartupBegin \/ StartupItem \/ StartupEnd
    \/ RenderBegin \/ RenderConfigure \/ RenderFinish
    \/ UserCancel
    \/ UserEditTiming \/ UserDuplicateLayer \/ UserAddLayer \/ UserSaveProject

Spec == Init /\ [][Next]_vars

(***************************************************************************)
(* Properties.                                                             *)
(***************************************************************************)
\* the Startup script is running or was the last to run
InStartup == script = "startup"
\* the last invocation was a Startup run that completed
StartupDone == InStartup /\ pc = "idle" /\ result = "success"
\* the items of the config the Startup run has reconciled so far
Reconciled == IF InStartup THEN {j \in DOMAIN cfg.items : j < idx} ELSE {}
\* the layers of the child composition of item name n in graph g
ChildLayers(g, n) ==
    IF findCompByName(g, PreName(n)) = 0 THEN <<>>
    ELSE g.comps[findCompByName(g, PreName(n))].layers
LayersNamed(g, n, name) ==
    LET P(l) == l.name = name IN SelectSeq(ChildLayers(g, n), P)
\* the item's footage cannot be resolved: no path, or the file does not exist
Unresolved(it) == ItemFile(it) = NoPath \/ ~FileExists(ItemFile(it))
AllExist(c) == \A j \in DOMAIN c.items : ~Unresolved(c.items[j])
\* the same compositions with the same layers, the same media items
SameGraph(g1, g2) ==
    g1.comps = g2.comps /\ g1.footage = g2.footage /\ g1.solids = g2.solids
\* the value the config gives a field, its documented default when absent
ConfigValue(v, d) == IF v = Absent THEN d ELSE v[1]
IsGiven(v) == v # Absent

\* C1: a second Startup run with the identical config, all item files existing and
\* every host operation succeeding, leaves the graph as the first run left it:
\* the same compositions, layers and media items.
C1_Idempotent ==
    (StartupDone /\ chained /\ Succeeds(host) /\ cfg = prevCfg /\ AllExist(cfg))
        => SameGraph(proj, pre)

\* C2: once an item with first <= last whose footage resolves is reconciled, its
\* source layer has startTime = inPoint = (first - global_first) / frame_rate and
\* outPoint - startTime = (last - first + 1) / frame_rate, within 0.01 s.
C2_LayerTiming ==
    \A j \in Reconciled :
       LET it == cfg.items[j]
           gf == ConfigValue(cfg.global_first, 1)
           fr == ConfigValue(cfg.frame_rate, 24)
           ls == LayersNamed(proj, it.name, SourceName(it.name))
       IN  (it.first <= it.last /\ ~Unresolved(it) /\ fr > 0) =>
              /\ Len(ls) = 1
              /\ ls[1].startTime = ls[1].inPoint
              /\ Abs(ls[1].startTime - Secs(it.first - gf, fr)) <= Tol
              /\ Abs(ls[1].outPoint - ls[1].startTime - Secs(it.last - it.first + 1, fr)) <= Tol

\* C3: once an item whose footage cannot be resolved is reconciled, its child
\* composition holds exactly one layer named "<name> (Missing)" and no layer
\* named "[AEBridge]_Source_<name>", whatever it held before the run.
C3_MissingPlaceholder ==
    \A j \in Reconciled :
       LET n == cfg.items[j].name IN
       Unresolved(cfg.items[j]) =>
          /\ findCompByName(proj, PreName(n)) # 0
          /\ Len(LayersNamed(proj, n, MissingName(n))) = 1
          /\ Len(LayersNamed(proj, n, SourceName(n))) = 0
\* a run replaced the source layers the child composition held by the placeholder
C3_Witness ==
    /\ StartupDone
    /\ \E j \in Reconciled :
          /\ Unresolved(cfg.items[j])
          /\ Len(LayersNamed(pre, cfg.items[j].name, SourceName(cfg.items[j].name))) >= 1
          /\ Len(LayersNamed(proj, cfg.items[j].name, MissingName(cfg.items[j].name))) = 1

\* the item kept its name since the previous run and its path changed from one
\* existing file to another
PathChanged(it) ==
    /\ ~Unresolved(it)
    /\ \E k \in DOMAIN prevCfg.items :
          /\ prevCfg.items[k].name = it.name
          /\ ItemFile(prevCfg.items[k]) # ItemFile(it)
          /\ ~Unresolved(prevCfg.items[k])
\* this step is the loop body for item cfg.items[idx] of a run that follows a
\* successful run directly, on a host where every operation succeeds
PathChangeStep ==
    /\ InStartup /\ pc = "loop" /\ idx \in DOMAIN cfg.items /\ idx' = idx + 1
    /\ chained /\ Succeeds(host)
    /\ PathChanged(cfg.items[idx])
\* the child composition and the one source layer are the objects they were
SameCompAndLayer(n) ==
    /\ findCompByName(proj, PreName(n)) # 0
    /\ findCompByName(proj', PreName(n)) # 0
    /\ proj'.comps[findCompByName(proj', PreName(n))].id
          = proj.comps[findCompByName(proj, PreName(n))].id
    /\ Len(LayersNamed(proj, n, SourceName(n))) >= 1
    /\ Len(LayersNamed(proj', n, SourceName(n))) = 1
    /\ LayersNamed(proj', n, SourceName(n))[1].id = LayersNamed(proj, n, SourceName(n))[1].id

C5_MainCompRange ==
    (/\ StartupDone
     /\ IsGiven(cfg.global_first) /\ IsGiven(cfg.global_last) /\ IsGiven(cfg.frame_rate)
     /\ cfg.global_first[1] <= cfg.global_last[1] /\ cfg.frame_rate[1] > 0) =>
       LET main == proj.comps[mainIx]
           gf == cfg.global_first[1]
           gl == cfg.global_last[1]
           fr == cfg.frame_rate[1]
       IN  /\ main.displayStartFrame = gf
           /\ Abs(main.duration - Secs(gl - gf + 1, fr)) <= Tol
           /\ main.displayStartFrame + (main.duration * main.frameRate) \div TPS - 1 = gl

\* configureOutputModule has returned in the render-only script
Configured == script = "render" /\ configured # "none"
NoDefaultOffered(h) == Range(h.templates) \cap DefaultTemplates = {}
HasFileWrite(log) == \E i \in DOMAIN log : IsFileWrite(log[i])

\* C6 (as stated): with an empty template name and none of the known default
\* templates offered by the host, configuration returns failure; and a failing
\* configuration has written no destination file.
C6_NoDefaultFails ==
    Configured =>
       /\ (cfg.template_name = "none" /\ NoDefaultOffered(host)) => configured = "failed"
       /\ configured = "failed" => ~HasFileWrite(omLog)

\* C6 (amended): with an empty template name and none of the known default
\* templates offered, configuration fails exactly when the host also rejects the
\* forced 'Format' setting; and a failing configuration has written no
\* destination file.
C6_NoDefaultFailsIfFormatRejected ==
    Configured =>
       /\ (cfg.template_name = "none" /\ NoDefaultOffered(host)) =>
             (configured = "failed" <=> "Format" \in host.omRejects)
       /\ configured = "failed" => ~HasFileWrite(omLog)
\* configuration failed with no template name, no default template, no forced format
C6_Witness ==
    /\ Configured /\ configured = "failed"
    /\ cfg.template_name = "none" /\ NoDefaultOffered(host)
    /\ "Format" \in host.omRejects

\* a template name is given and no host template has exactly that name
NameNotFound == cfg.template_name # "none" /\ cfg.template_name \notin Range(host.templates)
\* the default path alone would succeed on this host
FallbackSucceeds ==
    configurePNGDefault(<<>>, cfg.output_path, globalFirst(cfg), host).ok

C8_FileWriteLast ==
    rendered => (omLog # <<>> /\ IsFileWrite(omLog[Len(omLog)]))
\* a render after a template application and settings writes
C8_Witness ==
    /\ rendered
    /\ script = "render"
    /\ \E i \in DOMAIN omLog : omLog[i].op = "applyTemplate"
    /\ \E i \in DOMAIN omLog : omLog[i].arg = "includeSourceXMP"

IsNumbering(w) == w.op = "setSetting" /\ w.arg \in {"Start Numbering", "Starting #"}

\* C9: on the template path the writes are in the order apply template,
\* numbering start, destination file: no destination-file write precedes the
\* numbering-start write.
C9_TemplateOrder ==
    (Configured /\ configured = "ok" /\ cfg.template_name # "none") =>
        \A i \in DOMAIN omLog : \A j \in DOMAIN omLog :
            /\ (omLog[i].op = "applyTemplate" /\ IsNumbering(omLog[j])) => i < j
            /\ (IsNumbering(omLog[i]) /\ IsFileWrite(omLog[j])) => i < j

\* C10: when footage is resolved by name with path drift and both the in-place
\* swap and the fallback replace fail, the item gets a placeholder and no source
\* layer (resolution returned NotFound), and the run continues.
C10_BothSwapsFailNotFound ==
    (/\ InStartup /\ idx > 1 /\ via = "name"
     /\ ~host.swapOk /\ ~host.replaceOk) =>
       LET n == cfg.items[idx - 1].name IN
       /\ result # "error"
       /\ Len(LayersNamed(proj, n, MissingName(n))) = 1
       /\ Len(LayersNamed(proj, n, SourceName(n))) = 0

\* C11: no failure of a footage-resolution step leaves resolution as a throw; in
\* particular when the fresh sequence import fails the run stays alive, the item
\* gets a placeholder and the remaining items are reconciled.
C11_ImportFailureDegrades ==
    (InStartup /\ via = "import" /\ ~host.importOk) =>
       /\ result # "error"
       /\ idx > 1
       /\ Len(LayersNamed(proj, cfg.items[idx - 1].name,
                          MissingName(cfg.items[idx - 1].name))) = 1

\* the properties syncCompSettings writes
CompProps == {"frameRate", "duration", "width", "height", "displayStartFrame",
              "workAreaStart", "workAreaDuration"}
\* the main composition as StartupBegin found (or created) it, and as it left it
MainBefore ==
    LET i == findCompByName(pre, MainName(cfg)) IN
    IF i = 0 THEN NewComp(0, MainName(cfg), cfg) ELSE pre.comps[i]
MainAfter == proj.comps[mainIx]
\* the value syncCompSettings means to give property p
CompTarget(p) ==
    CASE p = "frameRate" -> FRAME_RATE(cfg)
      [] p = "duration" -> DURATION(cfg)
      [] p = "width" -> COMP_WIDTH(cfg)
      [] p = "height" -> COMP_HEIGHT(cfg)
      [] p = "displayStartFrame" -> GLOBAL_FIRST(cfg)
      [] p = "workAreaStart" -> 0
      [] p = "workAreaDuration" -> DURATION(cfg)
\* the write of p is needed: the start frame and the work area are always written
CompWriteNeeded(p) ==
    \/ p \in {"displayStartFrame", "workAreaStart", "workAreaDuration"}
    \/ MainBefore[p] # CompTarget(p)
\* StartupBegin has just synchronised the main composition
MainSynced == InStartup /\ pc = "loop" /\ idx = 1

\* C12: whatever subset of the property writes of comp synchronisation the host
\* rejects, every other write that is needed and that the host accepts is applied
\* (a rejected width write does not prevent the height write).
C12_IndependentWrites ==
    MainSynced =>
       \A p \in CompProps :
          (CompWriteNeeded(p) /\ p \notin host.rejects) => MainAfter[p] = CompTarget(p)

\* the run is at the check that precedes item idx
AtItemCheck == InStartup /\ pc = "loop" /\ idx <= Len(cfg.items)

\* C13: cancellation is checked before each item: when the cancel flag is set before
\* the check that precedes item k, the step from that check writes nothing to the
\* project graph, saves nothing, starts no render and ends the run as cancelled.
C13_CancelBeforeItem ==
    [][(AtItemCheck /\ cancelFlag) =>
          /\ proj' = proj
          /\ disk' = disk
          /\ ~rendered'
          /\ pc' = "idle"
          /\ thrown' = "User cancelled"
          /\ result' = "error"]_vars
\* a run cancelled after its first item and before its second
C13_Witness ==
    /\ InStartup /\ pc = "idle" /\ thrown = "User cancelled"
    /\ idx = 2 /\ Len(cfg.items) = 2
    /\ ~rendered /\ ~disk.exists

\* C14: a run during which the user raised the cancel signal (cancelFlag is set
\* while the script runs on a config with its project path) does not complete: no
\* step writes the success sentinel.
C14_NoSuccessAfterCancel ==
    [][(pc # "idle" /\ cancelFlag /\ cfg.project_path # NoPath) => result' # "success"]_vars

\* the last item the loop reconciled completed, and its host operations took more
\* than the inactivity budget (all of idle is time spent in them)
SlowItemCompleted == InStartup /\ idx > 1 /\ idle > TIMEOUT_MS

\* C15: only the absence of progress between steps is timed: a run whose items all
\* complete, one of them after host operations longer than the inactivity budget,
\* does not end as timed out.
C15_SlowItemNotTimedOut ==
    SlowItemCompleted => thrown # "Script timeout"

\* a script has run and has ended
Ended == pc = "idle" /\ script # "none"
\* the render-only script stopped on its config, before its undo group
StoppedOnConfig == script = "render" /\ thrown = "Stop" /\ alerts = <<"stop">>

\* C16: on every terminal path of both scripts the progress window is closed and
\* the undo group is ended exactly once: every beginUndoGroup is matched by one
\* endUndoGroup, and endUndoGroup is never called without a beginUndoGroup before it.
C16_WindowAndUndoGroup ==
    /\ undoLog \in {<<>>, <<"begin">>, <<"begin", "end">>}
    /\ pc # "idle" => undoLog = <<"begin">>
    /\ Ended => /\ ~winOpen
                /\ undoLog = IF StoppedOnConfig THEN <<>> ELSE <<"begin", "end">>
\* a Startup run that timed out: the window was closed by checkTimeout and again by
\* the catch block, the undo group was ended once
C16_Witness ==
    InStartup /\ Ended /\ thrown = "Script timeout" /\ ~winOpen /\ undoLog = <<"begin", "end">>

\* the config of the invocation lacks a path its script requires
RequiredPathMissing ==
    \/ cfg.project_path = NoPath
    \/ script = "render" /\ cfg.output_path = NoPath

\* C17: an invocation whose config lacks a required path (project_path in either
\* script, output_path in the render-only script) stops at once with the error log
\* and an alert: it opens or creates no project and changes nothing in the graph.
C17_MissingPathIsFatal ==
    [][(runs' = runs + 1 /\ RequiredPathMissing') =>
          /\ proj' = proj
          /\ pc' = "idle"
          /\ result' = "error"
          /\ alerts' # <<>>]_vars

\* the messages of the errors the user is not alerted of
Silent == {"User cancelled", "Script timeout"}

RenderFoundComp == script = "render" /\ mainIx # 0
\* the named composition as the render-only run found it and as it is now
RenderCompBefore == pre.comps[mainIx]
RenderCompNow == proj.comps[mainIx]

\* C19 (as stated): the render-only invocation writes no property of the named
\* composition: its frame rate, duration and display start frame are as before.
C19_CompUntouched ==
    RenderFoundComp =>
       /\ RenderCompNow.frameRate = RenderCompBefore.frameRate
       /\ RenderCompNow.duration = RenderCompBefore.duration
       /\ RenderCompNow.displayStartFrame = RenderCompBefore.displayStartFrame

\* C19 (amended): the render-only invocation writes three properties of the named
\* composition from its config, unless the host rejects the write: the frame rate,
\* the duration (when the frame range is not empty) and the display start frame
\* (when global_first is neither 0 nor 1).  It writes nothing else of that
\* composition and nothing of any other composition.
C19_WritesRateDurationStart ==
    RenderFoundComp =>
       /\ "frameRate" \notin host.rejects => RenderCompNow.frameRate = FRAME_RATE(cfg)
       /\ ("duration" \notin host.rejects /\ durationFrames(cfg) > 0) =>
              RenderCompNow.duration = Secs(durationFrames(cfg), FRAME_RATE(cfg))
       /\ ("displayStartFrame" \notin host.rejects /\ globalFirst(cfg) \notin {0, 1}) =>
              RenderCompNow.displayStartFrame = globalFirst(cfg)
       /\ globalFirst(cfg) \in {0, 1} =>
              RenderCompNow.displayStartFrame = RenderCompBefore.displayStartFrame
       /\ RenderCompNow = [RenderCompBefore EXCEPT
                              !.frameRate = RenderCompNow.frameRate,
                              !.duration = RenderCompNow.duration,
                              !.displayStartFrame = RenderCompNow.displayStartFrame]
       /\ DOMAIN proj.comps = DOMAIN pre.comps
       /\ \A i \in DOMAIN proj.comps : i # mainIx => proj.comps[i] = pre.comps[i]
\* a render-only run that changed the duration of its composition
C19_Witness ==
    /\ RenderFoundComp
    /\ RenderCompNow.duration # RenderCompBefore.duration
    /\ RenderCompNow.workAreaDuration = RenderCompBefore.workAreaDuration

\* the ids of the compositions, of the media items and of the layers of g.comps[ci]
CompIds(g) == {g.comps[i].id : i \in DOMAIN g.comps}
FootageIds(g) == {g.footage[i].id : i \in DOMAIN g.footage}
LayerIds(g, ci) == {g.comps[ci].layers[i].id : i \in DOMAIN g.comps[ci].layers}
\* the names the loop body of item it may remove layers by
ReservedNames(it) == {SourceName(it.name), MissingName(it.name)}
\* from graph g to graph g2 no composition and no media item went, and the layers
\* that went were layers of the child composition of item it with a reserved name
OnlyReservedRemoved(g, g2, mi, its) ==
    /\ CompIds(g) \subseteq CompIds(g2)
    /\ FootageIds(g) \subseteq FootageIds(g2)
    /\ \A ci \in DOMAIN g.comps :
         \A l \in Range(g.comps[ci].layers) :
            l.id \notin LayerIds(g2, ci) =>
               /\ ci # mi
               /\ \E it \in its : /\ g.comps[ci].name = PreName(it.name)
                                  /\ l.name \in ReservedNames(it)
\* a step of a Startup run: its start (the graph it found is pre') or a loop step
StartupStarts == pc = "idle" /\ script' = "startup" /\ pc' = "loop"
StartupLoops == InStartup /\ pc = "loop"

\* C20: reconciliation is non-destructive: no step of a Startup run removes a
\* composition or a media item or a layer of the main composition, and the layers a
\* step removes are layers of the child composition of the item being reconciled
\* that are named "[AEBridge]_Source_<item.name>" or "<item.name> (Missing)".
C20_NonDestructive ==
    [][/\ StartupStarts => OnlyReservedRemoved(pre', proj', mainIx', {})
       /\ StartupLoops =>
             OnlyReservedRemoved(proj, proj', mainIx,
                                 {cfg.items[i] : i \in {idx} \cap DOMAIN cfg.items})]_vars
\* a Startup run removed the source layer of an item from its child composition,
\* where the user's own layer is still in place
C20_Witness ==
    /\ InStartup
    /\ \E ci \in DOMAIN pre.comps :
         /\ \E l \in Range(pre.comps[ci].layers) :
               l.name = SourceName(NameA) /\ l.id \notin LayerIds(proj, ci)
         /\ \E u \in Range(pre.comps[ci].layers) :
               u.name = UserLayerName /\ u.id \in LayerIds(proj, ci)

\* the compositions of g named name
CompsNamed(g, name) == {i \in DOMAIN g.comps : g.comps[i].name = name}
\* no two compositions of g have the same name
UniqueCompNames(g) ==
    \A i, j \in DOMAIN g.comps : g.comps[i].name = g.comps[j].name => i = j

\* C21: after any sequence of Startup runs with whatever configs, no two
\* compositions share a name: there is exactly one composition with the main
\* composition's name and exactly one child composition for every item the run
\* has processed, in the open project and in the saved one.
C21_OneCompPerName ==
    /\ UniqueCompNames(proj)
    /\ UniqueCompNames(disk.g)
    /\ InStartup =>
          /\ Cardinality(CompsNamed(proj, MainName(cfg))) = 1
          /\ \A k \in Reconciled :
                Cardinality(CompsNamed(proj, PreName(cfg.items[k].name))) = 1
\* a second run that found the compositions of its item and created none
C21_Witness ==
    /\ InStartup /\ runs = 2 /\ idx > 1
    /\ Len(pre.comps) >= 2
    /\ Len(proj.comps) = Len(pre.comps)
    /\ CompsNamed(pre, PreName(cfg.items[1].name)) # {}

\* the step is the start of a Startup run
StartupInvoked == pc = "idle" /\ script' = "startup" /\ runs' = runs + 1
\* a color write of the branch of config c that host h rejects
ColorWriteFails(c, h) ==
    \/ "linearBlending" \in h.colorRejects
    \/ ColorBranch(c) = "ACES" /\ (h.colorSettings # "yes" \/ h.colorRejects # {})
    \/ ColorBranch(c) # "ACES" /\ BranchSpace(c) \in h.colorRejects

\* C22: the color policy is never fatal: whatever color writes fail, in whatever
\* branch, the run goes on to ensure the main composition and enters the item loop
\* (and no run ends on a host error before its first item).
C22_ColorNeverFatal ==
    [][StartupInvoked =>
          /\ pc' = "loop"
          /\ idx' = 1
          /\ thrown' = "none"
          /\ CompsNamed(proj', MainName(cfg')) = {mainIx'}]_vars
\* a run whose color writes failed has reconciled its item
C22_Witness ==
    /\ InStartup /\ ColorWriteFails(cfg, host)
    /\ ColorBranch(cfg) = "Rec709" /\ host.colorRejects = {Rec709}
    /\ idx = 2 /\ result = "success"

\* C30: after the color policy, linear blending is enabled on the project in every
\* branch, also when the host rejects the working-space write of the branch
\* (the linearBlending write itself being accepted).
C30_LinearBlendingAlways ==
    (InStartup /\ "linearBlending" \notin host.colorRejects) => proj.linearBlending

\* the frame-based setter is unavailable and the time-offset fallback is accepted
StartFrameFallback ==
    "displayStartFrame" \in host.rejects /\ "displayStartTime" \notin host.rejects

\* C23: when the frame-based start-frame setter is unavailable and the time-offset
\* fallback succeeds, the first displayed frame of the composition (at frame_rate
\* frames per second) is global_first, as the primary mechanism would give.
C23_FallbackStartFrame ==
    (MainSynced /\ StartFrameFallback /\ MainAfter.frameRate = FRAME_RATE(cfg)) =>
       MainAfter.displayStartFrame = GLOBAL_FIRST(cfg)

\* the media item of g with id id
FootageOf(g, id) == g.footage[First({i \in DOMAIN g.footage : g.footage[i].id = id})]
\* the two keys the time-remap block installs for item it under config c
RemapKeys(f, it, c) ==
    << <<layerStartTime(it.first, c), 0>>,
       <<layerEndTime(it.first, it.last, c), FootageDuration(f)>> >>

\* C24: after every reconcile of a resolved item whose media duration differs from
\* layerDuration by more than 0.01 s, time remapping is enabled on the source layer
\* and its keys are exactly (layerStartTime -> 0) and (layerEndTime -> media
\* duration) of the current config, also when an earlier run enabled time remapping.
C24_RemapKeysCurrent ==
    \A j \in Reconciled \cap {idx - 1} :
       LET it == cfg.items[j]
           ls == LayersNamed(proj, it.name, SourceName(it.name))
       IN  \A i \in DOMAIN ls :
              LET f == FootageOf(proj, ls[i].src) IN
              (/\ ls[i].kind = "footage" /\ ~f.still
               /\ Abs(FootageDuration(f) - layerDuration(it.first, it.last, cfg)) > Tol) =>
                 /\ ls[i].remap
                 /\ ls[i].keys = RemapKeys(f, it, cfg)

\* what resolution returns for the item the loop is at: importOrUpdateSequence
\* called on the graph after ensureComp(preName)
Resolution ==
    LET it == cfg.items[idx] IN
    importOrUpdateSequence(ensureComp(proj, PreName(it.name), cfg, host).g,
                           ItemFile(it), it.name, host)
\* the layers of seq ls that are footage layers (their source is a FootageItem)
FootageLayers(ls) == SelectSeq(ls, IsFootageLayer)

\* C25: the loop step of an item whose footage resolves leaves in the item's child
\* composition exactly one footage layer named "[AEBridge]_Source_<name>", bound to
\* the media item resolution returned, whatever such layers there were before.
C25_OneSourceLayer ==
    [][(AtItemCheck /\ idx' = idx + 1 /\ Resolution.fx # 0) =>
          LET it == cfg.items[idx]
              ls == FootageLayers(LayersNamed(proj', it.name, SourceName(it.name)))
          IN  /\ Len(ls) = 1
              /\ ls[1].src = Resolution.g.footage[Resolution.fx].id]_vars
\* a loop step that found two source layers bound to other media than the one
\* resolution returned, and left one bound to it
C25_Witness ==
    /\ InStartup /\ idx = 2 /\ via = "import"
    /\ Len(LayersNamed(pre, cfg.items[1].name, SourceName(cfg.items[1].name))) = 2
    /\ Len(LayersNamed(proj, cfg.items[1].name, SourceName(cfg.items[1].name))) = 1
    /\ \A l \in Range(LayersNamed(pre, cfg.items[1].name, SourceName(cfg.items[1].name))) :
          l.src # LayersNamed(proj, cfg.items[1].name, SourceName(cfg.items[1].name))[1].src

\* the layers of the composition of g named main whose source is the child
\* composition of item name n
NestedLayers(g, main, n) ==
    LET mi == findCompByName(g, main)
        P(l) == l.kind = "comp" /\ CompName(g, l.src) = PreName(n)
    IN  IF mi = 0 THEN <<>> ELSE SelectSeq(g.comps[mi].layers, P)

\* C26: the loop step of an item whose footage resolves leaves in the main
\* composition exactly one layer whose source is the item's child composition: the
\* one that was there, untouched, or else a new one spanning [0, total duration].
C26_NestedOnce ==
    [][(AtItemCheck /\ idx' = idx + 1 /\ Resolution.fx # 0) =>
          LET n == cfg.items[idx].name
              before == NestedLayers(proj, MainName(cfg), n)
              after == NestedLayers(proj', MainName(cfg), n)
          IN  /\ Len(before) <= 1
              /\ Len(after) = 1
              /\ before # <<>> => after = before
              /\ before = <<>> => /\ after[1].startTime = 0
                                  /\ after[1].inPoint = 0
                                  /\ after[1].outPoint = DURATION(cfg)
                                  /\ after[1].name = PreName(n)]_vars
\* a second run found the child composition of its item nested and added nothing
C26_Witness ==
    /\ InStartup /\ runs = 2 /\ idx = 2 /\ via # "none"
    /\ Len(NestedLayers(pre, MainName(cfg), cfg.items[1].name)) = 1
    /\ NestedLayers(proj, MainName(cfg), cfg.items[1].name)
          = NestedLayers(pre, MainName(cfg), cfg.items[1].name)

\* the offered default template that comes earliest in the fixed list; "none" if none is offered
EarliestOffered(templates) ==
    LET i == First({k \in DOMAIN DefaultTemplateOrder :
                      DefaultTemplateOrder[k] \in Range(templates)}) IN
    IF i = 0 THEN "none" ELSE DefaultTemplateOrder[i]

\* C27: on the fallback path (empty template name) of the render-only script,
\* when the host offers default templates the template applied is the offered
\* one that comes earliest in the fixed list, whatever the order in which the
\* host enumerates its templates; and the forced 'Format' write is made only
\* when the host offers none of the default templates.
C27_FixedTemplateOrder ==
    (Configured /\ cfg.template_name = "none") =>
       /\ \A i \in DOMAIN omLog :
             omLog[i].op = "applyTemplate" => omLog[i].arg = EarliestOffered(host.templates)
       /\ (\E i \in DOMAIN omLog : omLog[i].arg = "Format") => NoDefaultOffered(host)

\* a template was applied to the output module, or the forced format was written
Established(log) ==
    \E i \in DOMAIN log : log[i].op = "applyTemplate" \/ log[i].arg = "Format"

ChildCompsOf(g, c) == {j \in DOMAIN c.items : findCompByName(g, PreName(c.items[j].name)) # 0}

\* C29: the order of a Startup run.  When the run enters the item loop the main
\* composition exists and nothing of the items has been touched (footage and child
\* compositions are as the run found them); the loop goes through the items one
\* by one in config order, a reconciled item leaving its child composition; the
\* project file is written only after the last item, with the graph the last
\* item left; a render starts only after that save (the render-queue entry is not
\* in the saved graph), and only when should_render is true and output_path is not
\* empty; the success sentinel is written only by the step that made this save
\* and, when it was due, this render.  (The project file is the one at
\* project_path; a run without project_path saves elsewhere.)
C29_OrchestrationOrder ==
    [][/\ (pc = "idle" /\ pc' = "loop" /\ script' = "startup") =>
             /\ idx' = 1
             /\ mainIx' \in DOMAIN proj'.comps
             /\ proj'.comps[mainIx'].name = MainName(cfg')
             /\ proj'.footage = pre'.footage
             /\ ChildCompsOf(proj', cfg') = ChildCompsOf(pre', cfg')
             /\ disk' = disk /\ ~rendered' /\ result' # "success"
       /\ (InStartup /\ pc = "loop") =>
             /\ idx' \in {idx, idx + 1}
             /\ idx' = idx + 1 =>
                   /\ idx \in DOMAIN cfg.items
                   /\ idx \in ChildCompsOf(proj', cfg)
                   /\ ChildCompsOf(proj', cfg) \subseteq ChildCompsOf(pre, cfg) \cup (1 .. idx)
                   /\ disk' = disk /\ ~rendered' /\ result' # "success"
             /\ disk' # disk =>
                   /\ idx > Len(cfg.items)
                   /\ disk' = [exists |-> TRUE, g |-> proj]
             /\ rendered' =>
                   /\ cfg.should_render /\ cfg.output_path # NoPath
                   /\ idx > Len(cfg.items)
                   /\ cfg.project_path # NoPath => disk' = [exists |-> TRUE, g |-> proj]
                   /\ proj'.rq # proj.rq
             /\ result' = "success" =>
                   /\ idx > Len(cfg.items)
                   /\ cfg.project_path # NoPath => disk' = [exists |-> TRUE, g |-> proj]
                   /\ rendered' <=> (cfg.should_render /\ cfg.output_path # NoPath)
                   /\ pc' = "idle"]_vars
\* a run over its items has saved, rendered and written the success sentinel
C29_Witness ==
    /\ StartupDone /\ rendered /\ disk.exists
    /\ Len(cfg.items) >= 1 /\ idx = Len(cfg.items) + 1
    /\ ChildCompsOf(disk.g, cfg) = DOMAIN cfg.items
    /\ disk.g.rq = <<>> /\ proj.rq # <<>>

\* the render-queue items of graph g for the composition with id
QueuedFor(g, id) == {i \in DOMAIN g.rq : g.rq[i] = id}

\* C31: repeated runs do not duplicate render work: when a run of either script
\* has ended (a Startup run after the first one having the config of the run
\* before it), the render queue of the project holds at most one item for the
\* main composition.
C31_OneQueueItem ==
    (/\ pc = "idle" /\ script # "none"
     /\ mainIx \in DOMAIN proj.comps
     /\ (InStartup /\ runs > 1) => cfg = prevCfg) =>
       Cardinality(QueuedFor(proj, proj.comps[mainIx].id)) <= 1

\* C32: every step that ends an invocation of either script leaves exactly one
\* kind of sentinel, and it is the success sentinel if and only if the run reached
\* its end with nothing thrown and with no cancel raised by the user while it ran
\* (a timeout is the thrown "Script timeout"); every other ending leaves the
\* error sentinel.  Runs on a config with its project path.
C32_OneSentinel ==
    [][/\ (pc # "idle" /\ pc' = "idle" /\ cfg.project_path # NoPath) =>
             /\ result' \in {"success", "error"}
             /\ result' = "success" <=> (thrown' = "none" /\ ~cancelFlag)
       /\ (pc = "idle" /\ runs' = runs + 1 /\ pc' = "idle") =>
             /\ result' = "error"
             /\ thrown' # "none"]_vars

\* the render-only run found the composition a completed Startup run had just
\* saved, and its config has the frame rate and frame range of that run's config
RenderAfterStartup ==
    /\ RenderFoundComp /\ chained
    /\ cfg.frame_rate = prevCfg.frame_rate
    /\ cfg.global_first = prevCfg.global_first
    /\ cfg.global_last = prevCfg.global_last

\* C33: both scripts derive the same frame range from the same config values
\* (omitted and zero values included): a render-only run after a Startup run
\* with the same frame_rate, global_first and global_last leaves the start frame
\* and the duration of the main composition as the Startup run wrote them, and
\* the numbering start it writes to the output module is the composition's
\* start frame.
C33_SameFrameRange ==
    RenderAfterStartup =>
       /\ RenderCompNow.displayStartFrame = RenderCompBefore.displayStartFrame
       /\ RenderCompNow.duration = RenderCompBefore.duration
       /\ RenderCompNow.frameRate = RenderCompBefore.frameRate
       /\ \A i \in DOMAIN omLog :
             IsNumbering(omLog[i]) => omLog[i].val = RenderCompNow.displayStartFrame
====
